---- MODULE Spec2Model ----
(***************************************************************************)
(* LIN bus decoder (lin_decoder.cpp): the timer-interrupt protocol state   *)
(* machine (Detect-Break / Read-Data), the frame ring buffer shared with   *)
(* the main context, and the sticky error flag register.                   *)
(*                                                                         *)
(* One handler invocation (ISR(TIMER2_COMPA_vect)) is one atomic step: on  *)
(* the AVR the main context cannot run while the handler runs.  The main   *)
(* context (readNextFrame, getAndClearErrorFlags) advances statement by    *)
(* statement, and the handler is invoked only while the global interrupt   *)
(* flag is set (cli() / sei()).                                            *)
(***************************************************************************)
EXTENDS Integers, Sequences, FiniteSets, TLC

VARIABLES
  \* ---- decoder state, owned by the interrupt handler
  state,                  \* states::DETECT_BREAK or states::READ_DATA
  low_bits_counter_,      \* StateDetectBreak::low_bits_counter_
  bytes_read_,            \* StateReadData::bytes_read_
  bits_read_in_byte_,     \* StateReadData::bits_read_in_byte_
  rx_from_lin1_,          \* StateReadData::rx_from_lin1_
  byte_buffer_,           \* StateReadData::byte_buffer_
  byte_buffer_bit_mask_,  \* StateReadData::byte_buffer_bit_mask_
  \* ---- ring buffer
  rx_frame_buffers,       \* [0..kMaxFrameBuffers-1 -> frame], a frame is its bytes
  head_frame_buffer,
  tail_frame_buffer,
  \* ---- error register, handler completion marker, repeater outputs
  error_flags,
  isr_marker,
  tx1_pin,                \* level driven on the master side output
  tx2_pin,                \* level driven on the slave side output
  \* ---- main context
  sreg_i,                 \* global interrupt enable flag (cli() / sei())
  pc,                     \* statement the main context is at
  value,                  \* waitForIsrEnd: the marker value read on entry
  buffer,                 \* readNextFrame: *buffer, the caller's frame
  result,                 \* readNextFrame: result
  flags_result,           \* getAndClearErrorFlags: result
  \* ---- setup
  baud,                   \* setup: the requested baud rate
  config,                 \* lin_decoder::config, the fields of Config
  timer,                  \* timer 2: compare A interrupt enable and period
  \* ---- frame validation (main loop)
  kV2Checksum,            \* frameChecksum: TRUE: the identifier is summed too
  frameOk,                \* what isFrameValid returned
  checksum,               \* what frameChecksum returned
  id_byte,                \* what setIdChecksumBits returned
  \* ---- busy waits (interrupt context)
  clock,                  \* hardware_clock: the free-running 16-bit counter
  busywait,               \* the busy wait in progress and its locals
  \* ---- the build
  boolean_is_bool,        \* TRUE: `boolean` is C++ bool; FALSE: it is uint8_t
  \* ---- the bus (environment) and its remaining traffic
  bus,
  \* ---- history (auxiliary) variables, written but never read by the code
  hist

vars == << state, low_bits_counter_, bytes_read_, bits_read_in_byte_,
           rx_from_lin1_, byte_buffer_, byte_buffer_bit_mask_,
           rx_frame_buffers, head_frame_buffer, tail_frame_buffer,
           error_flags, isr_marker, tx1_pin, tx2_pin,
           sreg_i, pc, value, buffer, result, flags_result,
           baud, config, timer,
           kV2Checksum, frameOk, checksum, id_byte, clock, busywait,
           boolean_is_bool, bus, hist >>

-----------------------------------------------------------------------------
(* Program constants *)

kMaxFrameBuffers == 8
kMinBytes == 1
kMaxBytes == 10
kSyncByte == 85          \* 0x55
kBreakBits == 10
kUint8 == 256
kUint16 == 65536
kDefaultBaud == 9600
kMaxSpaceBits == 6
kTicksPerMilli == 250    \* hardware_clock: 16 MHz / 64

DETECT_BREAK == 1
READ_DATA == 2

FRAME_TOO_SHORT == 1
FRAME_TOO_LONG == 2
START_BIT == 4
STOP_BIT == 8
SYNC_BYTE == 16
BUFFER_OVERRUN == 32
OTHER_ERR == 64

ErrorKinds == { FRAME_TOO_SHORT, FRAME_TOO_LONG, START_BIT, STOP_BIT,
                SYNC_BYTE, BUFFER_OVERRUN, OTHER_ERR }

HIGH == 1
LOW == 0

-----------------------------------------------------------------------------
(* Bounds of the model: the traffic the bus carries in one run *)

\* Ring scenario: back-to-back identifier-only frames.
MaxRingFrames == 9
\* Decode scenario: the frames of a run, and the line faults of its first frame.
MaxDecodeFrames == 2
MaxGlitches == 1
\* Idle timer ticks after the last frame of a run.
MaxTailTicks == 10
\* Calls the main context makes in one run of the decode scenario.
MaxDecodeCalls == 1
\* Handler invocations that complete before waitForIsrEnd's loop reads the
\* marker again (the main context executes between two interrupts).
MaxSpinLag == 1
\* the frames on the bus before it idles for ever
MaxLiveFrames == 2
\* the longest timeout tried besides 255, and the ticks of the counter between
\* two timeout tests of a busy wait
MaxClockTicks == 4
MaxTicksPerPoll == 2

-----------------------------------------------------------------------------
(* 8-bit arithmetic *)

Bit(v, k) == (v \div (2 ^ k)) % 2

RECURSIVE BitOrFrom(_, _, _)
BitOrFrom(a, b, k) ==
  IF k > 7 THEN 0
  ELSE (IF Bit(a, k) = 1 \/ Bit(b, k) = 1 THEN 2 ^ k ELSE 0) + BitOrFrom(a, b, k + 1)

\* a | b on uint8
BitOr(a, b) == BitOrFrom(a, b, 0)

\* (uint8)(a << 1)
Shl1(a) == (2 * a) % kUint8

RECURSIVE BitXorFrom(_, _, _)
BitXorFrom(a, b, k) ==
  IF k > 7 THEN 0
  ELSE (IF Bit(a, k) # Bit(b, k) THEN 2 ^ k ELSE 0) + BitXorFrom(a, b, k + 1)

\* a ^ b on uint8
BitXor(a, b) == BitXorFrom(a, b, 0)

RECURSIVE BitAndFrom(_, _, _)
BitAndFrom(a, b, k) ==
  IF k > 7 THEN 0
  ELSE (IF Bit(a, k) = 1 /\ Bit(b, k) = 1 THEN 2 ^ k ELSE 0) + BitAndFrom(a, b, k + 1)

\* a & b on uint8
BitAnd(a, b) == BitAndFrom(a, b, 0)

\* (uint8)(~a)
BitNot(a) == (kUint8 - 1) - (a % kUint8)

\* a value stored into a variable of type `boolean`
ToBoolean(isbool, v) == IF isbool THEN (IF v # 0 THEN 1 ELSE 0) ELSE v % kUint8

\* the error kinds whose bits are set in a mask
KindsOf(mask) == { e \in ErrorKinds : BitOr(mask, e) = mask }

-----------------------------------------------------------------------------
(* Config *)

\* the baud rate used: the default when the requested one is out of range
Config_baud(b) == IF b < 1000 \/ b > 20000 THEN kDefaultBaud ELSE b

\* variant: the x64 prescaler is selected below 4000 baud only
Config_set_x64Below4000(b) ==
  LET baud_ == Config_baud(b)
      prescaler_x64_ == baud_ < 4000
      prescaling == IF prescaler_x64_ THEN 64 ELSE 8
      counts_per_bit_ == ((16000000 \div prescaling) \div baud_) % kUint8
      clock_ticks_per_bit_ == ((kTicksPerMilli * 1000) \div baud_) % kUint8
  IN  [ baud_ |-> baud_,
        prescaler_x64_ |-> prescaler_x64_,
        counts_per_bit_ |-> counts_per_bit_,
        counts_per_half_bit_ |-> ((counts_per_bit_ \div 2) + 2) % kUint8,
        clock_ticks_per_bit_ |-> clock_ticks_per_bit_,
        clock_ticks_per_half_bit_ |-> (clock_ticks_per_bit_ \div 2) % kUint8,
        clock_ticks_per_until_start_bit_ |->
            (clock_ticks_per_bit_ * kMaxSpaceBits) % kUint8 ]

\* Config::set(b): every derived count is stored in a uint8 field
Config_set(b) ==
  LET baud_ == Config_baud(b)
      prescaler_x64_ == baud_ < 8000
      prescaling == IF prescaler_x64_ THEN 64 ELSE 8
      counts_per_bit_ == ((16000000 \div prescaling) \div baud_) % kUint8
      clock_ticks_per_bit_ == ((kTicksPerMilli * 1000) \div baud_) % kUint8
  IN  [ baud_ |-> baud_,
        prescaler_x64_ |-> prescaler_x64_,
        counts_per_bit_ |-> counts_per_bit_,
        counts_per_half_bit_ |-> ((counts_per_bit_ \div 2) + 2) % kUint8,
        clock_ticks_per_bit_ |-> clock_ticks_per_bit_,
        clock_ticks_per_half_bit_ |-> (clock_ticks_per_bit_ \div 2) % kUint8,
        clock_ticks_per_until_start_bit_ |->
            (clock_ticks_per_bit_ * kMaxSpaceBits) % kUint8 ]

\* Config before set is called: a zero-initialized static object
Config_zero ==
  [ baud_ |-> 0, prescaler_x64_ |-> FALSE, counts_per_bit_ |-> 0,
    counts_per_half_bit_ |-> 0, clock_ticks_per_bit_ |-> 0,
    clock_ticks_per_half_bit_ |-> 0, clock_ticks_per_until_start_bit_ |-> 0 ]

-----------------------------------------------------------------------------
(* LinFrame: the stored bytes of a frame and their count *)

LinFrame_reset == << >>
LinFrame_num_bytes(f) == Len(f)
LinFrame_append_byte(f, b) == Append(f, b)

-----------------------------------------------------------------------------
(* The state the interrupt handler works on, as one record *)

Cur ==
  [ state |-> state,
    low_bits_counter_ |-> low_bits_counter_,
    bytes_read_ |-> bytes_read_,
    bits_read_in_byte_ |-> bits_read_in_byte_,
    rx_from_lin1_ |-> rx_from_lin1_,
    byte_buffer_ |-> byte_buffer_,
    byte_buffer_bit_mask_ |-> byte_buffer_bit_mask_,
    rx_frame_buffers |-> rx_frame_buffers,
    head_frame_buffer |-> head_frame_buffer,
    tail_frame_buffer |-> tail_frame_buffer,
    error_flags |-> error_flags,
    isr_marker |-> isr_marker,
    tx1_pin |-> tx1_pin,
    tx2_pin |-> tx2_pin,
    has_more_bytes |-> FALSE,
    isbool |-> boolean_is_bool,
    raised |-> {},
    polled |-> {},
    mirror |-> << >> ]

-----------------------------------------------------------------------------
(* Ring buffer indices *)

\* variant: the tail index wraps one slot early
incrementTailFrameBuffer_wrapEarly(s) ==
  LET t == (s.tail_frame_buffer + 1) % kUint8
  IN  [s EXCEPT !.tail_frame_buffer = IF t >= kMaxFrameBuffers - 1 THEN 0 ELSE t]

incrementTailFrameBuffer(s) ==
  LET t == (s.tail_frame_buffer + 1) % kUint8
  IN  [s EXCEPT !.tail_frame_buffer = IF t >= kMaxFrameBuffers THEN 0 ELSE t]

\* variant: the head index wraps one slot late
incrementHeadFrameBuffer_wrapLate(s) ==
  LET h == (s.head_frame_buffer + 1) % kUint8
  IN  [s EXCEPT !.head_frame_buffer = IF h > kMaxFrameBuffers THEN 0 ELSE h]

incrementHeadFrameBuffer(s) ==
  LET h == (s.head_frame_buffer + 1) % kUint8
  IN  [s EXCEPT !.head_frame_buffer = IF h >= kMaxFrameBuffers THEN 0 ELSE h]

-----------------------------------------------------------------------------
(* Error flag register *)

\* error_flags |= flags; `raised` records the call (history only, as are
\* `polled`, the channels a busy wait for a start bit watched, and `mirror`,
\* the output written by the sampling step and the level written)
setErrorFlags(s, flags) ==
  [s EXCEPT !.error_flags = ToBoolean(s.isbool, BitOr(@, flags)),
            !.raised = @ \cup {flags}]

-----------------------------------------------------------------------------
(* Detect-Break state *)

StateDetectBreak_enter(s) ==
  [s EXCEPT !.state = DETECT_BREAK,
            !.low_bits_counter_ = 0,
            !.tx2_pin = HIGH]

\* Entered half a bit after the end of the break; waitForRxLow's result is
\* not used, and the timer is armed for the middle of the start bit.
StateReadData_enter(s) ==
  [s EXCEPT !.state = READ_DATA,
            !.bytes_read_ = 0,
            !.bits_read_in_byte_ = 0,
            !.rx_frame_buffers[s.head_frame_buffer] = LinFrame_reset,
            !.rx_from_lin1_ = TRUE]

\* variant: a high sample does not restart the count
StateDetectBreak_handle_isr_keepCount(s, rx1) ==
  IF rx1 = HIGH
  THEN [s EXCEPT !.tx2_pin = HIGH]
  ELSE LET s1 == [s EXCEPT !.tx2_pin = LOW,
                           !.low_bits_counter_ = (@ + 1) % kUint8]
       IN  IF s1.low_bits_counter_ < kBreakBits
           THEN s1
           ELSE StateReadData_enter([s1 EXCEPT !.tx2_pin = HIGH])

\* rx1: the level sampled on channel 1 by this tick
StateDetectBreak_handle_isr(s, rx1) ==
  IF rx1 = HIGH
  THEN [s EXCEPT !.tx2_pin = HIGH, !.low_bits_counter_ = 0]
  ELSE LET s1 == [s EXCEPT !.tx2_pin = LOW,
                           !.low_bits_counter_ = (@ + 1) % kUint8]
       IN  IF s1.low_bits_counter_ < kBreakBits
           THEN s1
           ELSE \* break detected: waitForRxHigh, wait half a bit, release tx2
                StateReadData_enter([s1 EXCEPT !.tx2_pin = HIGH])

-----------------------------------------------------------------------------
(* Read-Data state *)

\* variant: the sampled level is echoed on the active channel's own output
MirrorSample_ownChannel(s, rx) ==
  IF s.rx_from_lin1_
  THEN [s EXCEPT !.tx1_pin = rx, !.mirror = << 1, rx >>]
  ELSE [s EXCEPT !.tx2_pin = rx, !.mirror = << 2, rx >>]

\* the sampled level is mirrored onto the opposite channel's output
MirrorSample(s, rx) ==
  IF s.rx_from_lin1_
  THEN [s EXCEPT !.tx2_pin = rx, !.mirror = << 2, rx >>]
  ELSE [s EXCEPT !.tx1_pin = rx, !.mirror = << 1, rx >>]

\* variant: a missing start bit is always a start bit error
StartBitErrorKind_always(s) == START_BIT

\* the kind raised for a start bit sampled high
StartBitErrorKind(s) == IF s.bytes_read_ = 0 THEN SYNC_BYTE ELSE START_BIT

\* the kind raised for a stop bit sampled low (bytes_read_ was incremented before)
StopBitErrorKind(s) == IF s.bytes_read_ = 0 THEN SYNC_BYTE ELSE STOP_BIT

\* bit position 0
HandleStartBit(s, rx) ==
  IF rx = HIGH
  THEN StateDetectBreak_enter(setErrorFlags(s, StartBitErrorKind(s)))
  ELSE [s EXCEPT !.bits_read_in_byte_ = (@ + 1) % kUint8,
                 !.byte_buffer_ = 0,
                 !.byte_buffer_bit_mask_ = 1]

\* bit positions 1..8, least significant bit first
HandleDataBit(s, rx) ==
  [s EXCEPT !.byte_buffer_ = IF rx = HIGH THEN BitOr(@, s.byte_buffer_bit_mask_) ELSE @,
            !.byte_buffer_bit_mask_ = Shl1(@),
            !.bits_read_in_byte_ = (@ + 1) % kUint8]

\* variant: the channel is chosen anew after every byte
WaitNextStartBit_anyByte(s, w) ==
  [s EXCEPT !.rx_from_lin1_ = (w # 2), !.has_more_bytes = (w # 0),
            !.polled = IF s.bytes_read_ = 2 THEN {1, 2}
                       ELSE {IF s.rx_from_lin1_ THEN 1 ELSE 2}]

\* has_more_bytes and the channel of the following bytes; w is what the busy
\* wait returns: waitForResponseStartBit (0, 1 or 2) after the second byte,
\* waitForRxLow (0 or 1) after any other
WaitNextStartBit(s, w) ==
  IF s.bytes_read_ = 2
  THEN [s EXCEPT !.rx_from_lin1_ = (w # 2), !.has_more_bytes = (w # 0),
                 !.polled = {1, 2}]
  ELSE [s EXCEPT !.has_more_bytes = (w # 0),
                 !.polled = {IF s.rx_from_lin1_ THEN 1 ELSE 2}]

\* variant: an overrun is flagged but the oldest frame is not discarded
EndOfFrame_keepOldest(s) ==
  IF s.bytes_read_ < kMinBytes
  THEN StateDetectBreak_enter(setErrorFlags(s, FRAME_TOO_SHORT))
  ELSE LET s1 == incrementHeadFrameBuffer(s)
           s2 == IF s1.tail_frame_buffer = s1.head_frame_buffer
                 THEN setErrorFlags(s1, BUFFER_OVERRUN)
                 ELSE s1
       IN  StateDetectBreak_enter(s2)

\* the frame has ended: too short, or committed to the ring buffer
EndOfFrame(s) ==
  IF s.bytes_read_ < kMinBytes
  THEN StateDetectBreak_enter(setErrorFlags(s, FRAME_TOO_SHORT))
  ELSE LET s1 == incrementHeadFrameBuffer(s)
           s2 == IF s1.tail_frame_buffer = s1.head_frame_buffer
                 THEN incrementTailFrameBuffer(setErrorFlags(s1, BUFFER_OVERRUN))
                 ELSE s1
       IN  StateDetectBreak_enter(s2)

\* variant: the number of bytes is not limited
NextByte_noLimit(s) == s

\* variant: one byte more is let through before the frame is too long
NextByte_lateLimit(s) ==
  IF LinFrame_num_bytes(s.rx_frame_buffers[s.head_frame_buffer]) > kMaxBytes
  THEN StateDetectBreak_enter(setErrorFlags(s, FRAME_TOO_LONG))
  ELSE s

\* variant: an over-long frame is flagged and decoding goes on
NextByte_goOn(s) ==
  IF LinFrame_num_bytes(s.rx_frame_buffers[s.head_frame_buffer]) >= kMaxBytes
  THEN setErrorFlags(s, FRAME_TOO_LONG)
  ELSE s

\* a further byte follows
NextByte(s) ==
  IF LinFrame_num_bytes(s.rx_frame_buffers[s.head_frame_buffer]) >= kMaxBytes
  THEN StateDetectBreak_enter(setErrorFlags(s, FRAME_TOO_LONG))
  ELSE s

\* variant: the sync byte is stored too
StoreByte_keepSync(s) ==
  [s EXCEPT !.rx_frame_buffers[s.head_frame_buffer] =
                LinFrame_append_byte(@, s.byte_buffer_)]

\* the completed byte: the sync byte is verified and dropped, any other is stored
StoreByte(s) ==
  IF s.bytes_read_ = 1
  THEN s
  ELSE [s EXCEPT !.rx_frame_buffers[s.head_frame_buffer] =
                     LinFrame_append_byte(@, s.byte_buffer_)]

\* bit position 9
HandleStopBit(s, rx, w) ==
  LET s1 == [s EXCEPT !.bytes_read_ = (@ + 1) % kUint8,
                      !.bits_read_in_byte_ = 0]
  IN  IF rx # HIGH
      THEN StateDetectBreak_enter(setErrorFlags(s1, StopBitErrorKind(s1)))
      ELSE IF s1.bytes_read_ = 1 /\ s1.byte_buffer_ # kSyncByte
      THEN StateDetectBreak_enter(setErrorFlags(s1, SYNC_BYTE))
      ELSE LET s2 == WaitNextStartBit([StoreByte(s1) EXCEPT !.has_more_bytes = FALSE], w)
           IN  IF ~ s2.has_more_bytes THEN EndOfFrame(s2) ELSE NextByte(s2)

\* rx: the level sampled on the active channel by this tick
StateReadData_handle_isr(s, rx, w) ==
  LET s0 == MirrorSample(s, rx)
  IN  IF s0.bits_read_in_byte_ = 0 THEN HandleStartBit(s0, rx)
      ELSE IF s0.bits_read_in_byte_ <= 8 THEN HandleDataBit(s0, rx)
      ELSE HandleStopBit(s0, rx, w)

-----------------------------------------------------------------------------
(* The interrupt handler *)

\* variant: the switch has no case for READ_DATA
ISR_body_noReadCase(s, rx, w) ==
  LET s1 == CASE s.state = DETECT_BREAK -> StateDetectBreak_handle_isr(s, rx)
              [] OTHER -> StateDetectBreak_enter(setErrorFlags(s, OTHER_ERR))
  IN  [s1 EXCEPT !.isr_marker = (@ + 1) % kUint8]

\* variant: the marker is left alone when a tick finds the line idle
ISR_body_idleKeepsMarker(s, rx, w) ==
  LET s1 == CASE s.state = DETECT_BREAK -> StateDetectBreak_handle_isr(s, rx)
              [] s.state = READ_DATA    -> StateReadData_handle_isr(s, rx, w)
              [] OTHER -> StateDetectBreak_enter(setErrorFlags(s, OTHER_ERR))
  IN  IF s.state = DETECT_BREAK /\ rx = HIGH
      THEN s1
      ELSE [s1 EXCEPT !.isr_marker = (@ + 1) % kUint8]

ISR_body(s, rx, w) ==
  LET s1 == CASE s.state = DETECT_BREAK -> StateDetectBreak_handle_isr(s, rx)
              [] s.state = READ_DATA    -> StateReadData_handle_isr(s, rx, w)
              [] OTHER -> StateDetectBreak_enter(setErrorFlags(s, OTHER_ERR))
  IN  [s1 EXCEPT !.isr_marker = (@ + 1) % kUint8]

-----------------------------------------------------------------------------
(* The bus: what the lines carry.  A run carries bus.frames frames back to  *)
(* back, then stays idle.  Their bytes are fixed by the frame's number and  *)
(* the byte's index, so that every frame is told from every other.  Only    *)
(* the first frame of a run may carry a response or suffer line faults, and *)
(* no response starts after a fault; the frames after the first are         *)
(* well-formed headers (sync and identifier).                               *)

\* the byte sent at index i (0: the sync byte) of the frame numbered f; the
\* response carries the bytes 0x00, 0xFF and 0x55 among its data
WireByte(f, i) ==
  CASE i = 0 -> kSyncByte
    [] i = 3 -> 0
    [] i = 4 -> kUint8 - 1
    [] i = 5 -> kSyncByte
    [] OTHER -> (f * 37 + i * 101 + 13) % kUint8

\* calls: the calls the main context may still make (-1: any number)
RingBus ==
  [ frames |-> MaxRingFrames, first |-> TRUE, longs |-> 0, glitches |-> 0,
    tail |-> MaxTailTicks, calls |-> -1, forever |-> FALSE ]

DecodeBus ==
  [ frames |-> MaxDecodeFrames, first |-> TRUE, longs |-> 1, glitches |-> MaxGlitches,
    tail |-> MaxTailTicks, calls |-> MaxDecodeCalls, forever |-> FALSE ]

\* forever: the idle ticks after the last frame never end
LiveBus ==
  [ frames |-> MaxLiveFrames, first |-> TRUE, longs |-> 0, glitches |-> 0,
    tail |-> 0, calls |-> -1, forever |-> TRUE ]

\* a break is confirmed: the next frame starts
BusNextFrame ==
  [bus EXCEPT !.frames = @ - 1,
              !.first = FALSE,
              !.longs = IF bus.first THEN @ ELSE 0,
              !.glitches = IF bus.first THEN @ ELSE 0]

\* the level the line carries at this tick when nothing goes wrong
NominalLevel ==
  IF state # READ_DATA THEN LOW
  ELSE IF bits_read_in_byte_ = 0 THEN LOW
  ELSE IF bits_read_in_byte_ <= 8
       THEN Bit(WireByte(bus.frames, bytes_read_), bits_read_in_byte_ - 1)
  ELSE HIGH

\* the tick's busy wait for the next start bit is reached
WaitReached(rx) ==
  /\ state = READ_DATA
  /\ bits_read_in_byte_ > 8
  /\ rx = HIGH
  /\ ~ (bytes_read_ = 0 /\ byte_buffer_ # kSyncByte)

\* the lengths, in ticks, of the low pulses shorter than a break that the bus
\* carries: the shortest and the longest
ShortPulses == { 1, kBreakBits - 1 }

\* a line fault: the level sampled, or the silence met, is not the nominal one
BusFault == [bus EXCEPT !.glitches = @ - 1, !.longs = 0]

\* never allowed
BusNever == [bus EXCEPT !.glitches = -1]

\* The bus after a tick that sampled rx and whose wait returned w; the tick
\* can happen when the traffic left allows it (every field stays >= 0).
BusAfter(rx, w) ==
  IF state # READ_DATA
  THEN IF rx = LOW
       THEN IF low_bits_counter_ + 1 >= kBreakBits THEN BusNextFrame ELSE bus
       ELSE IF low_bits_counter_ \in ShortPulses THEN BusFault
       ELSE IF bus.frames = 0
            THEN IF bus.forever THEN bus ELSE [bus EXCEPT !.tail = @ - 1]
       ELSE BusNever
  ELSE IF rx # NominalLevel
       THEN IF bits_read_in_byte_ \in 1..8 /\ bytes_read_ # 0 THEN BusNever ELSE BusFault
  ELSE IF ~ WaitReached(rx) THEN bus
  ELSE IF bytes_read_ = 0
       THEN IF w = 0 THEN BusFault ELSE bus
  ELSE IF bytes_read_ = 1
       THEN [bus EXCEPT !.longs = IF w # 0 THEN @ - 1 ELSE @]
  ELSE bus

BusAllows(rx, w) ==
  LET b == BusAfter(rx, w)
  IN  /\ b.frames >= 0 /\ b.longs >= 0 /\ b.glitches >= 0 /\ b.tail >= 0
      /\ (state # READ_DATA /\ rx = LOW) => bus.frames > 0
      /\ IF WaitReached(rx)
         THEN w \in (IF bytes_read_ = 1 THEN {0, 1, 2} ELSE {0, 1})
         ELSE w = 0

-----------------------------------------------------------------------------
(* History variables *)

\*  raised     the kinds passed to setErrorFlags by the latest handler invocation
\*  sample     the level it sampled; wait: what its busy wait for the next start
\*             bit returned (-1: it did not wait); committed: it committed a frame
\*  lows       the consecutive ticks, up to the latest, that sampled channel 1
\*             low in Detect-Break
\*  wire       the bytes framed on the active channel since the break, each the
\*             sum of its data bits' weights (wbyte: the byte in progress)
\*  reads      the consecutive ticks, up to the latest, handled in Read-Data
\*  polled     the channels its busy wait for a start bit watched
\*  mirror     the output its sampling step wrote (1: tx1, 2: tx2) and the level
\*  pending    the kinds raised since the latest drain read the register
\*  due        the kinds pending when the drain in progress read the register
\*  log        every frame committed, in commit order
\*  fifo       the committed frames neither read nor discarded by an overrun
\*  noverrun   the buffer-overrun raises so far
\*  popped     the frame the read in progress took from fifo
\*  early_read a read returned a frame before kMaxFrameBuffers + 1 were committed
HistInit ==
  [ raised |-> {}, sample |-> HIGH, wait |-> -1, committed |-> FALSE, lows |-> 0,
    wire |-> << >>, wbyte |-> 0, reads |-> 0, polled |-> {}, mirror |-> << >>,
    pending |-> {}, due |-> {},
    log |-> << >>, fifo |-> << >>, noverrun |-> 0,
    popped |-> << >>, early_read |-> FALSE ]

\* after a handler invocation that took s to n, having sampled rx and waited w
HistAfterIsr(s, n, rx, w) ==
  LET committed == n.head_frame_buffer # s.head_frame_buffer
      frame == n.rx_frame_buffers[s.head_frame_buffer]
      overrun == BUFFER_OVERRUN \in n.raised
      pos == s.bits_read_in_byte_
  IN  [ hist EXCEPT
          !.raised = n.raised,
          !.sample = rx,
          !.wait = IF WaitReached(rx) THEN w ELSE -1,
          !.committed = committed,
          !.reads = IF s.state = READ_DATA THEN @ + 1 ELSE 0,
          !.polled = n.polled,
          !.mirror = n.mirror,
          !.lows = IF s.state = DETECT_BREAK /\ rx = LOW THEN @ + 1 ELSE 0,
          !.pending = @ \cup n.raised,
          !.log = IF committed THEN Append(@, frame) ELSE @,
          !.fifo = IF ~ committed THEN @
                   ELSE IF overrun THEN Tail(Append(@, frame)) ELSE Append(@, frame),
          !.noverrun = IF overrun THEN @ + 1 ELSE @,
          !.wbyte = IF s.state # READ_DATA \/ pos = 0 THEN 0
                    ELSE IF pos <= 8 THEN @ + rx * (2 ^ (pos - 1)) ELSE @,
          !.wire = IF s.state # READ_DATA THEN << >>
                   ELSE IF pos > 8 /\ rx = HIGH THEN Append(@, hist.wbyte) ELSE @ ]

-----------------------------------------------------------------------------
(* Interrupt context *)

mainvars == << sreg_i, pc, value, buffer, result, flags_result >>

validatorvars == << kV2Checksum, frameOk, checksum, id_byte >>

waitvars == << clock, busywait >>

\* ISR(TIMER2_COMPA_vect): one timer tick, served while interrupts are enabled
ISR_TIMER2_COMPA ==
  /\ sreg_i
  /\ timer.ocie2a
  /\ pc = "rn_wait" => (isr_marker - value) % kUint8 < MaxSpinLag
  /\ \E rx \in {LOW, HIGH}, w \in {0, 1, 2} :
       /\ BusAllows(rx, w)
       /\ LET n == ISR_body(Cur, rx, w)
          IN  /\ state' = n.state
              /\ low_bits_counter_' = n.low_bits_counter_
              /\ bytes_read_' = n.bytes_read_
              /\ bits_read_in_byte_' = n.bits_read_in_byte_
              /\ rx_from_lin1_' = n.rx_from_lin1_
              /\ byte_buffer_' = n.byte_buffer_
              /\ byte_buffer_bit_mask_' = n.byte_buffer_bit_mask_
              /\ rx_frame_buffers' = n.rx_frame_buffers
              /\ head_frame_buffer' = n.head_frame_buffer
              /\ tail_frame_buffer' = n.tail_frame_buffer
              /\ error_flags' = n.error_flags
              /\ isr_marker' = n.isr_marker
              /\ tx1_pin' = n.tx1_pin
              /\ tx2_pin' = n.tx2_pin
              /\ hist' = HistAfterIsr(Cur, n, rx, w)
       /\ bus' = BusAfter(rx, w)
  /\ UNCHANGED << mainvars, baud, config, timer, validatorvars, waitvars,
                  boolean_is_bool >>

-----------------------------------------------------------------------------
(* Main context *)

isrvars == << state, low_bits_counter_, bytes_read_, bits_read_in_byte_,
              rx_from_lin1_, byte_buffer_, byte_buffer_bit_mask_,
              isr_marker, tx1_pin, tx2_pin, baud, config, timer,
              validatorvars, waitvars, boolean_is_bool >>

ringvars == << rx_frame_buffers, head_frame_buffer, tail_frame_buffer >>

\* cli() / sei()
cli == FALSE
sei == TRUE

\* readNextFrame is called: result = false; waitForIsrEnd reads the marker
readNextFrame_call ==
  /\ pc = "idle"
  /\ bus.calls # 0
  /\ bus' = [bus EXCEPT !.calls = IF @ > 0 THEN @ - 1 ELSE @]
  /\ pc' = "rn_wait"
  /\ result' = FALSE
  /\ buffer' = LinFrame_reset
  /\ value' = isr_marker
  /\ UNCHANGED << isrvars, ringvars, error_flags, sreg_i, flags_result, hist >>

\* waitForIsrEnd: the loop ends once the marker differs from the value read
waitForIsrEnd_exit ==
  /\ pc = "rn_wait"
  /\ value # isr_marker
  /\ pc' = "rn_cli"
  /\ value' = 0
  /\ UNCHANGED << isrvars, ringvars, error_flags, sreg_i, buffer, result,
                  flags_result, bus, hist >>

\* variant: interrupts stay enabled
readNextFrame_cli_enabled ==
  /\ pc = "rn_cli"
  /\ sreg_i' = sreg_i
  /\ pc' = "rn_check"
  /\ UNCHANGED << isrvars, ringvars, error_flags, value, buffer, result,
                  flags_result, bus, hist >>

readNextFrame_cli ==
  /\ pc = "rn_cli"
  /\ sreg_i' = cli
  /\ pc' = "rn_check"
  /\ UNCHANGED << isrvars, ringvars, error_flags, value, buffer, result,
                  flags_result, bus, hist >>

\* if (tail_frame_buffer != head_frame_buffer)
readNextFrame_check ==
  /\ pc = "rn_check"
  /\ pc' = IF tail_frame_buffer # head_frame_buffer THEN "rn_copy" ELSE "rn_sei"
  /\ UNCHANGED << isrvars, ringvars, error_flags, sreg_i, value, buffer, result,
                  flags_result, bus, hist >>

\* *buffer = rx_frame_buffers[tail_frame_buffer]
readNextFrame_copy ==
  /\ pc = "rn_copy"
  /\ buffer' = rx_frame_buffers[tail_frame_buffer]
  /\ pc' = "rn_inc"
  /\ UNCHANGED << isrvars, ringvars, error_flags, sreg_i, value, result,
                  flags_result, bus, hist >>

\* incrementTailFrameBuffer(); result = true
readNextFrame_inc ==
  /\ pc = "rn_inc"
  /\ tail_frame_buffer' = incrementTailFrameBuffer(Cur).tail_frame_buffer
  /\ result' = TRUE
  /\ pc' = "rn_sei"
  /\ hist' = [hist EXCEPT
                !.popped = IF hist.fifo # << >> THEN Head(hist.fifo) ELSE << -1 >>,
                !.fifo = IF @ # << >> THEN Tail(@) ELSE @,
                !.early_read = @ \/ Len(hist.log) <= kMaxFrameBuffers]
  /\ UNCHANGED << isrvars, rx_frame_buffers, head_frame_buffer, error_flags, sreg_i,
                  value, buffer, flags_result, bus >>

\* sei(); return result: the caller takes the result and the frame
readNextFrame_sei ==
  /\ pc = "rn_sei"
  /\ sreg_i' = sei
  /\ pc' = "idle"
  /\ result' = FALSE
  /\ buffer' = LinFrame_reset
  /\ hist' = [hist EXCEPT !.popped = << >>]
  /\ UNCHANGED << isrvars, ringvars, error_flags, value, flags_result, bus >>

\* getAndClearErrorFlags is called: cli()
getAndClearErrorFlags_cli ==
  /\ pc = "idle"
  /\ bus.calls # 0
  /\ bus' = [bus EXCEPT !.calls = IF @ > 0 THEN @ - 1 ELSE @]
  /\ sreg_i' = cli
  /\ pc' = "gc_read"
  /\ UNCHANGED << isrvars, ringvars, error_flags, value, buffer, result,
                  flags_result, hist >>

\* const boolean result = error_flags
getAndClearErrorFlags_read ==
  /\ pc = "gc_read"
  /\ flags_result' = ToBoolean(boolean_is_bool, error_flags)
  /\ pc' = "gc_clear"
  /\ hist' = [hist EXCEPT !.due = hist.pending, !.pending = {}]
  /\ UNCHANGED << isrvars, ringvars, error_flags, sreg_i, value, buffer, result, bus >>

\* error_flags = 0
getAndClearErrorFlags_clear ==
  /\ pc = "gc_clear"
  /\ error_flags' = 0
  /\ pc' = "gc_sei"
  /\ UNCHANGED << isrvars, ringvars, sreg_i, value, buffer, result, flags_result,
                  bus, hist >>

\* sei(); return result: the caller takes the mask
getAndClearErrorFlags_sei ==
  /\ pc = "gc_sei"
  /\ sreg_i' = sei
  /\ pc' = "idle"
  /\ flags_result' = 0
  /\ hist' = [hist EXCEPT !.due = {}]
  /\ UNCHANGED << isrvars, ringvars, error_flags, value, buffer, result, bus >>

-----------------------------------------------------------------------------
(* Busy waits of the interrupt handler.  Each runs with interrupts disabled: *)
(* one action per loop iteration, and the counter ticks between iterations,  *)
(* at most MaxTicksPerPoll times from one timeout test to the next.          *)

\* no busy wait is running; rx1, rx2: the levels on the two channels during
\* the latest iteration of waitForResponseStartBit (history only)
NoWait ==
  [ fn |-> "none", at |-> "idle", base_clock |-> 0, max_clock_ticks |-> 0,
    use_rx1 |-> TRUE, state1 |-> HIGH, state2 |-> HIGH, ret |-> -1,
    lag |-> 0, looped |-> FALSE, rx1 |-> HIGH, rx2 |-> HIGH ]

WaitIdle ==
  /\ clock = 0
  /\ busywait = NoWait

\* variant: the difference is taken without the 16-bit wrap
ClockDiff_noWrap(now, base_clock) == now - base_clock

\* const uint16 clock_diff = hardware_clock::ticksForIsr() - base_clock
ClockDiff(now, base_clock) == (now - base_clock) % kUint16

isRxHigh(use_rx1, rx1, rx2) == IF use_rx1 THEN rx1 = HIGH ELSE rx2 = HIGH

\* the functions and the timeouts they are called with
WaitFunctions == { "wait", "waitForRxLow", "waitForRxHigh", "waitForResponseStartBit" }
TimeoutSamples == { 0, 1, MaxClockTicks, kUint8 - 1 }

\* the wait returns r
WaitReturn(r) == [busywait EXCEPT !.at = "done", !.ret = r]

\* the wait goes round its loop once more
WaitLoop == [busywait EXCEPT !.lag = 0, !.looped = TRUE]

\* the timeout test that ends an iteration
TimeoutTest(r, again) ==
  IF ClockDiff(clock, busywait.base_clock) >= busywait.max_clock_ticks
  THEN WaitReturn(r)
  ELSE again

\* the variables a busy wait leaves alone
nowaitvars == << state, low_bits_counter_, bytes_read_, bits_read_in_byte_,
                 rx_from_lin1_, byte_buffer_, byte_buffer_bit_mask_,
                 rx_frame_buffers, head_frame_buffer, tail_frame_buffer,
                 error_flags, isr_marker, tx1_pin, tx2_pin,
                 mainvars, baud, config, timer, validatorvars,
                 boolean_is_bool, bus, hist >>

\* entry of a busy wait: base_clock is read, and the two levels for
\* waitForResponseStartBit
busywait_enter ==
  /\ busywait.at = "idle"
  /\ \E f \in WaitFunctions, m \in TimeoutSamples, u \in BOOLEAN,
        rx1 \in {LOW, HIGH}, rx2 \in {LOW, HIGH} :
       /\ f \in {"wait", "waitForResponseStartBit"} => u
       /\ f # "waitForResponseStartBit" => (rx1 = HIGH /\ rx2 = HIGH)
       /\ busywait' = [NoWait EXCEPT !.fn = f, !.at = "loop",
                                      !.base_clock = clock,
                                      !.max_clock_ticks = m,
                                      !.use_rx1 = u,
                                      !.state1 = rx1, !.state2 = rx2]
  /\ UNCHANGED << clock, nowaitvars >>

\* wait(clock_ticks): one iteration
wait_loop ==
  /\ busywait.at = "loop" /\ busywait.fn = "wait"
  /\ busywait' = TimeoutTest(0, WaitLoop)
  /\ UNCHANGED << clock, nowaitvars >>

\* waitForRxLow(max_clock_ticks, use_rx1): one iteration
waitForRxLow_loop ==
  /\ busywait.at = "loop" /\ busywait.fn = "waitForRxLow"
  /\ \E rx1 \in {LOW, HIGH}, rx2 \in {LOW, HIGH} :
       busywait' = IF ~ isRxHigh(busywait.use_rx1, rx1, rx2)
                   THEN WaitReturn(1)
                   ELSE TimeoutTest(0, WaitLoop)
  /\ UNCHANGED << clock, nowaitvars >>

\* waitForRxHigh(max_clock_ticks, use_rx1): one iteration
waitForRxHigh_loop ==
  /\ busywait.at = "loop" /\ busywait.fn = "waitForRxHigh"
  /\ \E rx1 \in {LOW, HIGH}, rx2 \in {LOW, HIGH} :
       busywait' = IF isRxHigh(busywait.use_rx1, rx1, rx2)
                   THEN WaitReturn(1)
                   ELSE TimeoutTest(0, WaitLoop)
  /\ UNCHANGED << clock, nowaitvars >>

\* variant: channel 2 is tested before channel 1
waitForResponseStartBit_loop_rx2First ==
  /\ busywait.at = "loop" /\ busywait.fn = "waitForResponseStartBit"
  /\ \E new_state1 \in {LOW, HIGH}, new_state2 \in {LOW, HIGH} :
       busywait' =
         [ (IF busywait.state2 = HIGH /\ new_state2 = LOW
            THEN WaitReturn(2)
            ELSE IF busywait.state1 = HIGH /\ new_state1 = LOW
            THEN [WaitReturn(1) EXCEPT !.state2 = new_state2]
            ELSE TimeoutTest(0, [WaitLoop EXCEPT !.state1 = new_state1,
                                                 !.state2 = new_state2]))
           EXCEPT !.rx1 = new_state1, !.rx2 = new_state2 ]
  /\ UNCHANGED << clock, nowaitvars >>

\* waitForResponseStartBit(max_clock_ticks): one iteration; channel 1 is
\* tested first, and channel 2 is not read when channel 1 shows an edge
waitForResponseStartBit_loop ==
  /\ busywait.at = "loop" /\ busywait.fn = "waitForResponseStartBit"
  /\ \E new_state1 \in {LOW, HIGH}, new_state2 \in {LOW, HIGH} :
       busywait' =
         [ (IF busywait.state1 = HIGH /\ new_state1 = LOW
            THEN WaitReturn(1)
            ELSE IF busywait.state2 = HIGH /\ new_state2 = LOW
            THEN [WaitReturn(2) EXCEPT !.state1 = new_state1]
            ELSE TimeoutTest(0, [WaitLoop EXCEPT !.state1 = new_state1,
                                                 !.state2 = new_state2]))
           EXCEPT !.rx1 = new_state1, !.rx2 = new_state2 ]
  /\ UNCHANGED << clock, nowaitvars >>

\* the counter advances by one
hardware_clock_tick ==
  /\ busywait.at = "loop"
  /\ busywait.lag < MaxTicksPerPoll
  /\ clock' = (clock + 1) % kUint16
  /\ busywait' = [busywait EXCEPT !.lag = @ + 1]
  /\ UNCHANGED nowaitvars

-----------------------------------------------------------------------------
(* Frame validation (arduino.ino) *)

\* uint16 sum of the n bytes that follow the first `from` bytes
RECURSIVE SumBytes(_, _, _)
SumBytes(bytes, from, n) ==
  IF n = 0 THEN 0
  ELSE (SumBytes(bytes, from, n - 1) + bytes[from + n]) % kUint16

\* variant: the carry is folded once only
FoldCarry_once(sum) ==
  IF (sum \div kUint8) % kUint8 = 0 THEN sum
  ELSE (sum % kUint8) + ((sum \div kUint8) % kUint8)

\* keep adding the high and low bytes until no carry
RECURSIVE FoldCarry(_)
FoldCarry(sum) ==
  LET highByte == (sum \div kUint8) % kUint8
  IN  IF highByte = 0 THEN sum
      ELSE FoldCarry(((sum % kUint8) + highByte) % kUint16)

\* frameChecksum(buffer), v2: kV2Checksum
frameChecksum(bytes, v2) ==
  LET startByte == IF v2 THEN 0 ELSE 1
      nBytes == (Len(bytes) - (startByte + 1)) % kUint8
  IN  BitNot(FoldCarry(SumBytes(bytes, startByte, nBytes)))

\* variant: the parity is taken one bit position off
setIdChecksumBits_shift1(id) ==
  LET s1 == (id * 2) % kUint8
      s2 == (s1 + s1) % kUint8
      s3 == (s2 + s2) % kUint8
      s4 == (s3 + s3) % kUint8
      s5 == (s4 + s4) % kUint8
      p1_at_b7 == BitXor(BitXor(BitXor(BitXor(kUint8 - 1, s1), s2), s3), s5)
      p0_at_b6 == BitXor(BitXor(BitXor(BitXor(0, s1), s3), s4), s5)
  IN  BitOr(BitOr(BitAnd(p1_at_b7, 128), BitAnd(p0_at_b6, 64)), BitAnd(id, 63))

\* setIdChecksumBits(id): shifter is id << 2, then doubled four times
setIdChecksumBits(id) ==
  LET s1 == (id * 4) % kUint8
      s2 == (s1 + s1) % kUint8
      s3 == (s2 + s2) % kUint8
      s4 == (s3 + s3) % kUint8
      s5 == (s4 + s4) % kUint8
      p1_at_b7 == BitXor(BitXor(BitXor(BitXor(kUint8 - 1, s1), s2), s3), s5)
      p0_at_b6 == BitXor(BitXor(BitXor(BitXor(0, s1), s3), s4), s5)
  IN  BitOr(BitOr(BitAnd(p1_at_b7, 128), BitAnd(p0_at_b6, 64)), BitAnd(id, 63))

\* isFrameValid(buffer)
isFrameValid(bytes, v2) ==
  LET n == Len(bytes)
  IN  IF n # 1 /\ (n < 3 \/ n > 10) THEN FALSE
      ELSE IF bytes[1] # setIdChecksumBits(bytes[1]) THEN FALSE
      ELSE IF n > 1 /\ bytes[n] # frameChecksum(bytes, v2) THEN FALSE
      ELSE TRUE

\* no validation has run
ValidatorIdle ==
  /\ kV2Checksum = FALSE
  /\ frameOk = FALSE
  /\ checksum = 0
  /\ id_byte = 0

\* the variables validation leaves alone
decodervars == << state, low_bits_counter_, bytes_read_, bits_read_in_byte_,
                  rx_from_lin1_, byte_buffer_, byte_buffer_bit_mask_,
                  rx_frame_buffers, head_frame_buffer, tail_frame_buffer,
                  error_flags, isr_marker, tx1_pin, tx2_pin,
                  sreg_i, value, buffer, result, flags_result,
                  baud, config, timer, kV2Checksum, waitvars,
                  boolean_is_bool, bus, hist >>

\* setIdChecksumBits(buffer.bytes[0])
setIdChecksumBits_call ==
  /\ pc = "validate"
  /\ id_byte' = setIdChecksumBits(buffer[1])
  /\ pc' = "v_id"
  /\ UNCHANGED << decodervars, frameOk, checksum >>

\* frameChecksum(buffer), as isFrameValid calls it: more than one byte
frameChecksum_call ==
  /\ pc = "validate"
  /\ LinFrame_num_bytes(buffer) \in 3 .. 10
  /\ checksum' = frameChecksum(buffer, kV2Checksum)
  /\ pc' = "v_sum"
  /\ UNCHANGED << decodervars, frameOk, id_byte >>

\* const boolean frameOk = isFrameValid(buffer)
isFrameValid_call ==
  /\ pc = "validate"
  /\ frameOk' = isFrameValid(buffer, kV2Checksum)
  /\ pc' = "v_ok"
  /\ UNCHANGED << decodervars, checksum, id_byte >>

-----------------------------------------------------------------------------
(* setup(baud), called once from main before interrupts are enabled *)

\* setupTimer: period of counts_per_bit timer counts, interrupt on compare A
setupTimer(c) ==
  [ ocie2a |-> TRUE, ocr2a |-> (c.counts_per_bit_ - 1) % kUint8 ]

\* the variables setup leaves alone
setupfixed == << bytes_read_, bits_read_in_byte_, rx_from_lin1_, byte_buffer_,
                 byte_buffer_bit_mask_, rx_frame_buffers, isr_marker, sreg_i,
                 value, buffer, result, flags_result, baud, validatorvars, waitvars,
                 boolean_is_bool, bus, hist >>

\* config.set(baud)
setup_config ==
  /\ pc = "boot"
  /\ config' = Config_set(baud)
  /\ pc' = "su_pins"
  /\ UNCHANGED << setupfixed, state, low_bits_counter_, head_frame_buffer,
                  tail_frame_buffer, error_flags, tx1_pin, tx2_pin, timer >>

\* setupPins(): the outputs are driven, passive (high)
setup_pins ==
  /\ pc = "su_pins"
  /\ tx1_pin' = HIGH
  /\ tx2_pin' = HIGH
  /\ pc' = "su_buffers"
  /\ UNCHANGED << setupfixed, state, low_bits_counter_, head_frame_buffer,
                  tail_frame_buffer, error_flags, config, timer >>

\* setupBuffers()
setup_buffers ==
  /\ pc = "su_buffers"
  /\ head_frame_buffer' = 0
  /\ tail_frame_buffer' = 0
  /\ pc' = "su_enter"
  /\ UNCHANGED << setupfixed, state, low_bits_counter_, error_flags,
                  tx1_pin, tx2_pin, config, timer >>

\* variant: the state machine is not entered
setup_enter_skipped ==
  /\ pc = "su_enter"
  /\ pc' = "su_timer"
  /\ UNCHANGED << setupfixed, state, low_bits_counter_, tx2_pin,
                  head_frame_buffer, tail_frame_buffer, error_flags,
                  tx1_pin, config, timer >>

\* StateDetectBreak::enter()
setup_enter ==
  /\ pc = "su_enter"
  /\ LET n == StateDetectBreak_enter(Cur)
     IN  /\ state' = n.state
         /\ low_bits_counter_' = n.low_bits_counter_
         /\ tx2_pin' = n.tx2_pin
  /\ pc' = "su_timer"
  /\ UNCHANGED << setupfixed, head_frame_buffer, tail_frame_buffer, error_flags,
                  tx1_pin, config, timer >>

\* setupTimer()
setup_timer ==
  /\ pc = "su_timer"
  /\ timer' = setupTimer(config)
  /\ pc' = "su_clear"
  /\ UNCHANGED << setupfixed, state, low_bits_counter_, head_frame_buffer,
                  tail_frame_buffer, error_flags, tx1_pin, tx2_pin, config >>

\* error_flags = 0; the configuration is printed and setup returns
setup_clear ==
  /\ pc = "su_clear"
  /\ error_flags' = 0
  /\ pc' = "idle"
  /\ UNCHANGED << setupfixed, state, low_bits_counter_, head_frame_buffer,
                  tail_frame_buffer, tx1_pin, tx2_pin, config, timer >>

-----------------------------------------------------------------------------
(* The state once setup() has returned and interrupts are enabled *)

InitState ==
  /\ state = DETECT_BREAK
  /\ low_bits_counter_ = 0
  /\ bytes_read_ = 0
  /\ bits_read_in_byte_ = 0
  /\ rx_from_lin1_ = FALSE
  /\ byte_buffer_ = 0
  /\ byte_buffer_bit_mask_ = 0
  /\ rx_frame_buffers = [i \in 0 .. kMaxFrameBuffers - 1 |-> LinFrame_reset]
  /\ head_frame_buffer = 0
  /\ tail_frame_buffer = 0
  /\ error_flags = 0
  /\ isr_marker = 0
  /\ tx1_pin = HIGH
  /\ tx2_pin = HIGH
  /\ sreg_i = sei
  /\ pc = "idle"
  /\ value = 0
  /\ buffer = LinFrame_reset
  /\ result = FALSE
  /\ flags_result = 0
  /\ baud = kDefaultBaud
  /\ config = Config_set(baud)
  /\ timer = setupTimer(config)
  /\ ValidatorIdle
  /\ WaitIdle
  /\ boolean_is_bool \in BOOLEAN
  /\ hist = HistInit

\* The state when main calls setup(baud): the static variables are zero and
\* interrupts are not yet enabled.
InitBoot ==
  /\ state = 0
  /\ low_bits_counter_ = 0
  /\ bytes_read_ = 0
  /\ bits_read_in_byte_ = 0
  /\ rx_from_lin1_ = FALSE
  /\ byte_buffer_ = 0
  /\ byte_buffer_bit_mask_ = 0
  /\ rx_frame_buffers = [i \in 0 .. kMaxFrameBuffers - 1 |-> LinFrame_reset]
  /\ head_frame_buffer = 0
  /\ tail_frame_buffer = 0
  /\ error_flags = 0
  /\ isr_marker = 0
  /\ tx1_pin = LOW
  /\ tx2_pin = LOW
  /\ sreg_i = cli
  /\ pc = "boot"
  /\ value = 0
  /\ buffer = LinFrame_reset
  /\ result = FALSE
  /\ flags_result = 0
  /\ baud \in 0 .. kUint16 - 1
  /\ config = Config_zero
  /\ timer = [ ocie2a |-> FALSE, ocr2a |-> 0 ]
  /\ ValidatorIdle
  /\ WaitIdle
  /\ boolean_is_bool \in BOOLEAN
  /\ hist = HistInit
  /\ bus = RingBus

\* the ring scenario
Init == InitState /\ bus = RingBus

\* the decode scenario
InitDecode == InitState /\ bus = DecodeBus

Next ==
  \/ ISR_TIMER2_COMPA
  \/ readNextFrame_call
  \/ waitForIsrEnd_exit
  \/ readNextFrame_cli
  \/ readNextFrame_check
  \/ readNextFrame_copy
  \/ readNextFrame_inc
  \/ readNextFrame_sei
  \/ getAndClearErrorFlags_cli
  \/ getAndClearErrorFlags_read
  \/ getAndClearErrorFlags_clear
  \/ getAndClearErrorFlags_sei

Spec == Init /\ [][Next]_vars

\* the steps of readNextFrame after the call
readNextFrame_steps ==
  \/ waitForIsrEnd_exit
  \/ readNextFrame_cli
  \/ readNextFrame_check
  \/ readNextFrame_copy
  \/ readNextFrame_inc
  \/ readNextFrame_sei

\* the steps of getAndClearErrorFlags after the call
getAndClearErrorFlags_steps ==
  \/ getAndClearErrorFlags_read
  \/ getAndClearErrorFlags_clear
  \/ getAndClearErrorFlags_sei

\* the bus idles for ever after its frames
InitLive == InitState /\ bus = LiveBus

\* The timer keeps interrupting while interrupts are enabled, and the main
\* context keeps executing between the interrupts.
SpecLive ==
  /\ InitLive
  /\ [][Next]_vars
  /\ WF_vars(ISR_TIMER2_COMPA)
  /\ WF_vars(readNextFrame_steps)
  /\ WF_vars(getAndClearErrorFlags_steps)

SpecDecode == InitDecode /\ [][Next]_vars

\* The frames handed to validation: every one-byte frame, and the longer
\* frames made of an identifier, data bytes and a last byte out of samples.
IdSamples == { 128, 255 }
DataSamples == { 0, 128, 255 }
LastSamples == { 127, 255 }

ValidatorFrames ==
  { << b >> : b \in 0 .. kUint8 - 1 }
  \cup { << i, l >> : i \in IdSamples, l \in LastSamples }
  \cup { << i >> \o d \o << l >> :
           i \in IdSamples,
           d \in UNION { [1 .. k -> DataSamples] : k \in 1 .. kMaxBytes - 2 },
           l \in LastSamples }

\* the main loop holds a frame that readNextFrame returned
InitValidate ==
  /\ state = DETECT_BREAK
  /\ low_bits_counter_ = 0
  /\ bytes_read_ = 0
  /\ bits_read_in_byte_ = 0
  /\ rx_from_lin1_ = FALSE
  /\ byte_buffer_ = 0
  /\ byte_buffer_bit_mask_ = 0
  /\ rx_frame_buffers = [i \in 0 .. kMaxFrameBuffers - 1 |-> LinFrame_reset]
  /\ head_frame_buffer = 0
  /\ tail_frame_buffer = 0
  /\ error_flags = 0
  /\ isr_marker = 0
  /\ tx1_pin = HIGH
  /\ tx2_pin = HIGH
  /\ sreg_i = sei
  /\ pc = "validate"
  /\ value = 0
  /\ buffer \in ValidatorFrames
  /\ result = TRUE
  /\ flags_result = 0
  /\ baud = kDefaultBaud
  /\ config = Config_set(baud)
  /\ timer = setupTimer(config)
  /\ kV2Checksum \in BOOLEAN
  /\ frameOk = FALSE
  /\ checksum = 0
  /\ id_byte = 0
  /\ WaitIdle
  /\ boolean_is_bool = TRUE   \* validation stores only true and false
  /\ hist = HistInit
  /\ bus = RingBus

NextValidate ==
  \/ setIdChecksumBits_call
  \/ frameChecksum_call
  \/ isFrameValid_call

SpecValidate == InitValidate /\ [][NextValidate]_vars

\* the counter values at which a busy wait is entered: far from the wrap,
\* and so close to it that the wait runs across it
EntryClocks == { 0, kUint16 - kUint8, kUint16 - 2, kUint16 - 1 }

InitWait ==
  /\ state = DETECT_BREAK
  /\ low_bits_counter_ = 0
  /\ bytes_read_ = 0
  /\ bits_read_in_byte_ = 0
  /\ rx_from_lin1_ = FALSE
  /\ byte_buffer_ = 0
  /\ byte_buffer_bit_mask_ = 0
  /\ rx_frame_buffers = [i \in 0 .. kMaxFrameBuffers - 1 |-> LinFrame_reset]
  /\ head_frame_buffer = 0
  /\ tail_frame_buffer = 0
  /\ error_flags = 0
  /\ isr_marker = 0
  /\ tx1_pin = HIGH
  /\ tx2_pin = HIGH
  /\ sreg_i = cli
  /\ pc = "idle"
  /\ value = 0
  /\ buffer = LinFrame_reset
  /\ result = FALSE
  /\ flags_result = 0
  /\ baud = kDefaultBaud
  /\ config = Config_set(baud)
  /\ timer = setupTimer(config)
  /\ ValidatorIdle
  /\ clock \in EntryClocks
  /\ busywait = NoWait
  /\ boolean_is_bool = TRUE   \* a busy wait stores only true and false
  /\ hist = HistInit
  /\ bus = RingBus

busywait_loop ==
  \/ wait_loop
  \/ waitForRxLow_loop
  \/ waitForRxHigh_loop
  \/ waitForResponseStartBit_loop

NextWait ==
  \/ busywait_enter
  \/ busywait_loop
  \/ hardware_clock_tick

\* The handler runs with interrupts disabled, so the loop keeps iterating,
\* and the counter keeps advancing.
SpecWait ==
  /\ InitWait
  /\ [][NextWait]_vars
  /\ WF_vars(busywait_loop)
  /\ WF_vars(hardware_clock_tick)

NextSetup ==
  \/ setup_config
  \/ setup_pins
  \/ setup_buffers
  \/ setup_enter
  \/ setup_timer
  \/ setup_clear

SpecSetup == InitBoot /\ [][NextSetup]_vars

-----------------------------------------------------------------------------
(* Properties *)

\* the handler has run in this step
IsrStep == isr_marker' # isr_marker

\* f is one of the frames committed so far
InLog(f) == \E i \in 1 .. Len(hist.log) : hist.log[i] = f

\* the last n frames committed
LastCommitted(n) == SubSeq(hist.log, Len(hist.log) - n + 1, Len(hist.log))

\* the slots from tail up to head hold exactly the unread frames, oldest first
RingMatchesFifo ==
  /\ Len(hist.fifo) = (head_frame_buffer - tail_frame_buffer) % kMaxFrameBuffers
  /\ \A i \in 1 .. Len(hist.fifo) :
       rx_frame_buffers[(tail_frame_buffer + i - 1) % kMaxFrameBuffers] = hist.fifo[i]

\* kMaxFrameBuffers + 1 frames were committed and no read returned a frame before
NineCommitsNoRead == Len(hist.log) = kMaxFrameBuffers + 1 /\ ~ hist.early_read

\* C1 as stated: once kMaxFrameBuffers + 1 frames are committed from the empty
\* state with no read in between, buffer-overrun was raised exactly once and
\* only the oldest frame is lost: the kMaxFrameBuffers most recent frames are
\* still to be read or have been read.
C1_OneOverrunEightLeft ==
  NineCommitsNoRead =>
    /\ hist.noverrun = 1
    /\ Len(hist.log) - hist.noverrun = kMaxFrameBuffers

\* C1 amended: once kMaxFrameBuffers + 1 frames are committed from the empty
\* state with no read in between, buffer-overrun was raised twice (at the
\* 8th and at the 9th commit) and the two oldest frames are lost; the reads that
\* follow return the kMaxFrameBuffers - 1 most recent frames in commit order,
\* and return false only once these are all read.
C1_TwoOverrunsSevenLeft ==
  NineCommitsNoRead =>
    /\ hist.noverrun = 2
    /\ Len(hist.fifo) <= kMaxFrameBuffers - 1
    /\ hist.fifo = LastCommitted(Len(hist.fifo))
    /\ RingMatchesFifo
    /\ (pc = "rn_sei" /\ result) =>
          buffer = hist.log[Len(hist.log) - Len(hist.fifo)]
    /\ (pc = "rn_sei" /\ ~ result) => hist.fifo = << >>

\* the read that follows the seventh frame read after nine commits returns false
C1_Witness ==
  /\ NineCommitsNoRead
  /\ hist.noverrun = 2
  /\ hist.fifo = << >>
  /\ pc = "rn_sei" /\ ~ result

\* C7: readNextFrame refines the pop of a FIFO of committed frames.  The ring
\* holds the unread frames oldest first (so none is unread exactly when head
\* equals tail); a call returns false, with head, tail and the caller's frame
\* unchanged, exactly when no frame is unread; otherwise it returns the oldest
\* unread frame and advances tail by one modulo kMaxFrameBuffers.
C7_ReadIsFifoPop ==
  /\ [](RingMatchesFifo)
  /\ [](pc = "rn_sei" =>
          IF result THEN buffer = hist.popped
                    ELSE hist.fifo = << >> /\ buffer = LinFrame_reset)
  /\ [][(pc = "rn_check" /\ pc' # pc) =>
          /\ UNCHANGED << ringvars, buffer, result >>
          /\ (pc' = "rn_sei") = (hist.fifo = << >>)
          /\ (pc' = "rn_sei") = (head_frame_buffer = tail_frame_buffer)]_vars
  /\ [][(pc = "rn_inc" /\ pc' # pc) =>
          /\ buffer = Head(hist.fifo)
          /\ hist'.fifo = Tail(hist.fifo)
          /\ tail_frame_buffer' = (tail_frame_buffer + 1) % kMaxFrameBuffers
          /\ UNCHANGED << head_frame_buffer, rx_frame_buffers, buffer >>]_vars

\* a read returns a frame from the last slot of the ring, and tail wraps to 0
C7_Witness ==
  /\ pc = "rn_sei" /\ result
  /\ tail_frame_buffer = 0
  /\ Len(hist.log) >= kMaxFrameBuffers
  /\ buffer = hist.popped

\* the statements of readNextFrame executed with interrupts disabled
ReadCritical == { "rn_check", "rn_copy", "rn_inc", "rn_sei" }

\* C8: readNextFrame copies a slot only when tail differs from head, so never
\* the slot the decoder is filling; no handler invocation falls between its
\* emptiness check, its copy and its tail increment; and the frame it returns
\* is a frame that was committed.
C8_ReadIsAtomic ==
  /\ [](pc \in { "rn_copy", "rn_inc" } => tail_frame_buffer # head_frame_buffer)
  /\ [](pc \in ReadCritical => ~ sreg_i)
  /\ []((pc = "rn_sei" /\ result) => InLog(buffer))
  /\ [][IsrStep => pc \notin ReadCritical]_vars

\* a frame is being copied while the decoder is in the middle of the next one
C8_Witness ==
  /\ pc = "rn_inc"
  /\ state = READ_DATA /\ bytes_read_ > 0
  /\ InLog(buffer)

\* the latest handler invocation met the silence that ends a frame
FrameEnded == hist.wait = 0

\* the frame committed last
LastFrame == hist.log[Len(hist.log)]

\* C2 as stated: when the frame ends right after the sync byte (break, 0x55,
\* silence), fewer than kMinBytes bytes were received, so frame-too-short is
\* raised, no frame is committed and the decoder is back in Detect-Break.
C2_SyncOnlyIsTooShort ==
  (FrameEnded /\ hist.wire = << kSyncByte >>) =>
    /\ FRAME_TOO_SHORT \in hist.raised
    /\ ~ hist.committed
    /\ state = DETECT_BREAK

\* the frame on the wire: a valid sync byte, then from kMinBytes to kMaxBytes
\* bytes with good start and stop bits, then silence
CleanFrame ==
  /\ FrameEnded
  /\ Head(hist.wire) = kSyncByte
  /\ Len(hist.wire) - 1 \in kMinBytes .. kMaxBytes

C4_MissingStartBit ==
  /\ [][(IsrStep /\ state = READ_DATA /\ bits_read_in_byte_ = 0
                 /\ hist'.sample = HIGH) =>
          /\ hist'.raised = { IF bytes_read_ = 0 THEN SYNC_BYTE ELSE START_BIT }
          /\ state' = DETECT_BREAK]_vars
  /\ []((CleanFrame /\ hist.pending \cap { SYNC_BYTE, START_BIT } # {}) =>
          /\ hist.committed
          /\ LastFrame = Tail(hist.wire)
          /\ hist.raised = {})

\* a frame is committed after a start-bit error that is still to be drained
C4_Witness ==
  /\ START_BIT \in hist.pending
  /\ CleanFrame
  /\ hist.committed
  /\ LastFrame = Tail(hist.wire)

\* C5 as stated: in Read-Data at the stop bit position, a low sample raises
\* the sync error in the first byte after the break and the stop-bit error in
\* any later byte; the decoder returns to Detect-Break and commits nothing.
C5_StopBitLow ==
  [][(IsrStep /\ state = READ_DATA /\ bits_read_in_byte_ = 9
             /\ hist'.sample = LOW) =>
      /\ hist'.raised = { IF bytes_read_ = 0 THEN SYNC_BYTE ELSE STOP_BIT }
      /\ state' = DETECT_BREAK
      /\ ~ hist'.committed]_vars

\* C6 as stated: the mask a drain returns has exactly the bits of the kinds
\* raised since the previous drain read the register (none lost, none
\* reported twice, several kinds as distinct bits of the one mask).
C6_DrainReturnsRaisedKinds ==
  pc \in { "gc_clear", "gc_sei" } => KindsOf(flags_result) = hist.due

\* C9: Read-Data is entered only from Detect-Break, by the handler invocation
\* whose low sample is the kBreakBits-th consecutive low sample of channel 1;
\* a high sample in Detect-Break resets the counter to 0, so a shorter low
\* pulse never starts a frame.
C9_BreakDetection ==
  /\ [](state = DETECT_BREAK =>
          low_bits_counter_ = hist.lows /\ hist.lows < kBreakBits)
  /\ [][(state' = READ_DATA /\ state # READ_DATA) =>
          /\ IsrStep
          /\ state = DETECT_BREAK
          /\ hist'.sample = LOW
          /\ hist'.lows = kBreakBits
          /\ low_bits_counter_' = kBreakBits]_vars
  /\ [][(IsrStep /\ state = DETECT_BREAK /\ hist'.sample = HIGH) =>
          low_bits_counter_' = 0 /\ state' = DETECT_BREAK]_vars
  /\ [][(IsrStep /\ state = DETECT_BREAK /\ hist'.lows = kBreakBits) =>
          state' = READ_DATA]_vars

\* the first frame starts after a low pulse shorter than a break was dropped
C9_Witness ==
  /\ state = READ_DATA
  /\ bus.frames = MaxDecodeFrames - 1
  /\ bytes_read_ = 0 /\ bits_read_in_byte_ = 0
  /\ bus.glitches < MaxGlitches
  /\ hist.pending = {}

\* the kinds raised for a malformed frame
FrameErrors == { FRAME_TOO_SHORT, FRAME_TOO_LONG, START_BIT, STOP_BIT, SYNC_BYTE }

\* C10: a handler invocation that raises too-short, too-long, start-bit,
\* stop-bit or sync error leaves the decoder in Detect-Break with the
\* low-bit counter at 0 and head and tail unchanged: no frame is committed,
\* and readNextFrame only ever returns committed frames.
C10_ErrorAbortsFrame ==
  /\ [][(IsrStep /\ hist'.raised \cap FrameErrors # {}) =>
          /\ state' = DETECT_BREAK
          /\ low_bits_counter_' = 0
          /\ UNCHANGED << head_frame_buffer, tail_frame_buffer >>
          /\ hist'.log = hist.log
          /\ hist'.fifo = hist.fifo]_vars
  /\ [](RingMatchesFifo /\ ((pc = "rn_inc") => InLog(buffer)))

\* an eleventh byte was announced: too-long raised, the ten bytes are dropped
C10_Witness ==
  /\ FRAME_TOO_LONG \in hist.raised
  /\ state = DETECT_BREAK
  /\ LinFrame_num_bytes(rx_frame_buffers[head_frame_buffer]) = kMaxBytes
  /\ ~ hist.committed

\* C11: once setup(baud) has returned, whatever the baud rate requested, the
\* decoder is in Detect-Break with the low-bit counter at 0, the ring buffer
\* is empty with head = tail = 0, and the error mask is 0 (setup is called
\* before interrupts are enabled).
C11_AfterSetup ==
  pc = "idle" =>
    /\ state = DETECT_BREAK
    /\ low_bits_counter_ = 0
    /\ head_frame_buffer = 0 /\ tail_frame_buffer = 0
    /\ error_flags = 0
    /\ config = Config_set(baud)
    /\ timer.ocie2a

\* setup has returned for a baud rate out of range: the default rate is used
C11_Witness ==
  /\ pc = "idle"
  /\ baud > 20000
  /\ config.baud_ = kDefaultBaud
  /\ state = DETECT_BREAK

\* the baud rates Config::set accepts
SupportedBauds == 1000 .. 20000

\* C12 as stated: for every baud rate from 1000 to 20000, every derived count
\* stored in Config is strictly positive and each half-bit count is at most
\* the full-bit count.
C12_DerivedCountsPositive ==
  (pc # "boot" /\ baud \in SupportedBauds) =>
    /\ config.counts_per_bit_ > 0
    /\ config.counts_per_half_bit_ > 0
    /\ config.clock_ticks_per_bit_ > 0
    /\ config.clock_ticks_per_half_bit_ > 0
    /\ config.clock_ticks_per_until_start_bit_ > 0
    /\ config.counts_per_half_bit_ <= config.counts_per_bit_
    /\ config.clock_ticks_per_half_bit_ <= config.clock_ticks_per_bit_

\* a frame size the specification allows
SizeOk(f) == LinFrame_num_bytes(f) \in kMinBytes .. kMaxBytes

\* C13 as stated: every frame committed, and every frame readNextFrame
\* returns, holds from kMinBytes to kMaxBytes bytes, and no slot ever holds
\* more than kMaxBytes bytes.
C13_FrameSizeInRange ==
  /\ \A i \in 1 .. Len(hist.log) : SizeOk(hist.log[i])
  /\ (pc = "rn_sei" /\ result) => SizeOk(buffer)
  /\ \A i \in 0 .. kMaxFrameBuffers - 1 :
       LinFrame_num_bytes(rx_frame_buffers[i]) <= kMaxBytes

\* both indices are slots of the ring
IndicesInRange ==
  /\ head_frame_buffer \in 0 .. kMaxFrameBuffers - 1
  /\ tail_frame_buffer \in 0 .. kMaxFrameBuffers - 1

\* C14 as stated: head is changed only by the handler and tail only by
\* readNextFrame (no handler invocation changes tail, no step of the main
\* context changes head), and both indices stay in [0, kMaxFrameBuffers).
C14_IndexOwnership ==
  /\ [](IndicesInRange)
  /\ [][IsrStep => tail_frame_buffer' = tail_frame_buffer]_vars
  /\ [][~ IsrStep => head_frame_buffer' = head_frame_buffer]_vars

\* C14 amended: head is changed only by the handler; tail is changed by
\* readNextFrame's increment and, besides, by the handler invocation that
\* commits a frame into a full ring: it raises buffer-overrun and advances
\* tail by one to discard the oldest frame.  Both indices stay in
\* [0, kMaxFrameBuffers).
C14_IndexOwnershipButOverrun ==
  /\ [](IndicesInRange)
  /\ [][~ IsrStep => head_frame_buffer' = head_frame_buffer]_vars
  /\ [][(~ IsrStep /\ tail_frame_buffer' # tail_frame_buffer) => pc = "rn_inc"]_vars
  /\ [][(IsrStep /\ tail_frame_buffer' # tail_frame_buffer) =>
          /\ BUFFER_OVERRUN \in hist'.raised
          /\ hist'.committed
          /\ head_frame_buffer' = tail_frame_buffer
          /\ tail_frame_buffer' = (tail_frame_buffer + 1) % kMaxFrameBuffers]_vars
  /\ [][(IsrStep /\ BUFFER_OVERRUN \notin hist'.raised) =>
          tail_frame_buffer' = tail_frame_buffer]_vars

\* the handler has just moved tail on an overrun, after the consumer had
\* moved it by a read
C14_Witness ==
  /\ BUFFER_OVERRUN \in hist.raised
  /\ hist.early_read
  /\ tail_frame_buffer = (head_frame_buffer + 1) % kMaxFrameBuffers
  /\ hist.noverrun = 1

-----------------------------------------------------------------------------
(* Frame validation: identifier parity *)

\* the two parity bits of an identifier byte
ParityBits(b) == b \div 64

\* C15: setIdChecksumBits depends only on the low six bits of its input and
\* keeps them, and it is idempotent; a one-byte frame whose byte it generated
\* is accepted by isFrameValid, and a frame whose identifier byte carries top
\* two bits other than the computed parity is rejected.
C15_IdParity ==
  /\ pc = "v_id" =>
        /\ id_byte = setIdChecksumBits(buffer[1] % 64)
        /\ id_byte % 64 = buffer[1] % 64
        /\ setIdChecksumBits(id_byte) = id_byte
        /\ isFrameValid(<< id_byte >>, kV2Checksum)
  /\ pc = "v_ok" =>
        /\ ParityBits(buffer[1]) # ParityBits(setIdChecksumBits(buffer[1] % 64))
             => ~frameOk
        /\ ( /\ LinFrame_num_bytes(buffer) = 1
             /\ ParityBits(buffer[1]) = ParityBits(setIdChecksumBits(buffer[1] % 64)) )
             => frameOk

\* an identifier byte with wrong parity bits was given and corrected
C15_Witness ==
  /\ pc = "v_id"
  /\ buffer[1] >= 64
  /\ id_byte # buffer[1]
  /\ id_byte % 64 = 63

-----------------------------------------------------------------------------
(* Frame validation: checksum *)

\* the sum of the bytes of a sequence, unbounded
RECURSIVE Total(_)
Total(s) == IF s = << >> THEN 0 ELSE Head(s) + Total(Tail(s))

\* the 8-bit sum with end-around carry of a total: 0 stays 0, anything else
\* lands in 1 .. 255
EndAroundCarry(total) == IF total = 0 THEN 0 ELSE ((total - 1) % 255) + 1

\* the bytes that are summed: from the identifier (enhanced) or from the first
\* data byte (classic) up to the byte before the last
Summed(bytes, v2) ==
  SubSeq(bytes, IF v2 THEN 1 ELSE 2, Len(bytes) - 1)

\* C16: for a frame of 3 to 10 bytes frameChecksum returns the complement of
\* the end-around-carry sum of the bytes from the start byte (the identifier
\* when enhanced, the first data byte when classic) to the byte before the
\* last, so the last byte is never summed; the two variants give different
\* values exactly when adding the identifier changes the folded sum.
C16_ChecksumIsFoldedSum ==
  pc = "v_sum" =>
    /\ checksum = 255 - EndAroundCarry(Total(Summed(buffer, kV2Checksum)))
    /\ \A l \in LastSamples :
         frameChecksum([buffer EXCEPT ![Len(buffer)] = l], kV2Checksum) = checksum
    /\ (frameChecksum(buffer, TRUE) # frameChecksum(buffer, FALSE))
         <=> (EndAroundCarry(Total(Summed(buffer, FALSE)) + buffer[1])
                # EndAroundCarry(Total(Summed(buffer, FALSE))))

\* a ten-byte frame whose sum carries twice, and whose variants differ
C16_Witness ==
  /\ pc = "v_sum"
  /\ LinFrame_num_bytes(buffer) = kMaxBytes
  /\ kV2Checksum
  /\ Total(Summed(buffer, TRUE)) = 511
  /\ checksum = 254
  /\ frameChecksum(buffer, FALSE) # checksum

-----------------------------------------------------------------------------
(* Over-long frames *)

\* the slot being written
HeadSlot == rx_frame_buffers[head_frame_buffer]

\* C17: when the slot already holds ten bytes and the wait finds a further
\* start bit, the handler raises frame-too-long, queues nothing and goes to
\* Detect-Break; when ten bytes are followed by silence the frame is
\* committed and frame-too-long is not raised.
C17_TooLong ==
  /\ (hist.wait > 0 /\ LinFrame_num_bytes(HeadSlot) >= kMaxBytes) =>
        /\ FRAME_TOO_LONG \in hist.raised
        /\ ~ hist.committed
        /\ state = DETECT_BREAK
        /\ LinFrame_num_bytes(HeadSlot) = kMaxBytes
  /\ (hist.wait = 0 /\ Len(hist.wire) = kMaxBytes + 1) =>
        /\ hist.committed
        /\ LastFrame = Tail(hist.wire)
        /\ hist.raised \subseteq { BUFFER_OVERRUN }
        /\ state = DETECT_BREAK
  /\ FRAME_TOO_LONG \in hist.raised =>
        (hist.wait > 0 /\ Len(hist.wire) = kMaxBytes + 1)

\* an eleventh byte was announced on the channel of the response
C17_Witness ==
  /\ FRAME_TOO_LONG \in hist.raised
  /\ LinFrame_num_bytes(HeadSlot) = kMaxBytes
  /\ hist.wait = 1
  /\ ~ rx_from_lin1_
  /\ hist.log = << >>
  /\ state = DETECT_BREAK

-----------------------------------------------------------------------------
(* The active channel *)

\* the channel read
ActiveChannel == IF rx_from_lin1_ THEN 1 ELSE 2

\* the handler has waited for the start bit of a further byte
Waited == IsrStep /\ hist'.wait >= 0

\* C18: the sync and identifier bytes are read from channel 1; the wait
\* after the second byte watches both channels, the channel whose edge it
\* reports becomes the active one and a timeout ends the frame there; the
\* wait after any later byte watches the active channel only and leaves it
\* as it is, so the active channel changes at most once in a frame.
C18_ActiveChannel ==
  /\ []((state = READ_DATA /\ bytes_read_ < 2) => rx_from_lin1_)
  /\ [][(Waited /\ bytes_read_' = 2) =>
          /\ hist'.polled = {1, 2}
          /\ hist'.wait = 1 => (ActiveChannel' = 1 /\ state' = READ_DATA)
          /\ hist'.wait = 2 => (ActiveChannel' = 2 /\ state' = READ_DATA)
          /\ hist'.wait = 0 => (state' = DETECT_BREAK /\ hist'.committed
                                  /\ LinFrame_num_bytes(LastFrame') = 1)]_vars
  /\ [][(Waited /\ bytes_read_' # 2) =>
          /\ hist'.polled = {ActiveChannel}
          /\ ActiveChannel' = ActiveChannel]_vars
  /\ [][(IsrStep /\ ActiveChannel' # ActiveChannel) =>
          \/ state = DETECT_BREAK /\ state' = READ_DATA /\ ActiveChannel' = 1
          \/ /\ state = READ_DATA /\ bytes_read_ = 1 /\ bytes_read_' = 2
             /\ hist'.wait = 2 /\ ActiveChannel' = 2]_vars

\* the response came on channel 2 and its second byte is announced there
C18_Witness ==
  /\ state = READ_DATA
  /\ ActiveChannel = 2
  /\ bytes_read_ = 3
  /\ hist.wait = 1
  /\ hist.polled = {2}

-----------------------------------------------------------------------------
(* The repeater outputs *)

\* C19: every Read-Data tick writes the level it sampled on the active
\* channel to the opposite channel's output (tx2 when channel 1 is read, tx1
\* when channel 2 is read) on every path, and its sampling step leaves the
\* active channel's own output as it was.
C19_SampleMirrored ==
  /\ [][(IsrStep /\ state = READ_DATA) =>
          /\ hist'.mirror = << 3 - ActiveChannel, hist'.sample >>
          /\ ActiveChannel = 2 =>
                tx1_pin' = hist'.sample
          /\ (ActiveChannel = 1 /\ state' = READ_DATA) =>
                (tx2_pin' = hist'.sample /\ tx1_pin' = tx1_pin)
          /\ (ActiveChannel = 2 /\ state' = READ_DATA) =>
                tx2_pin' = tx2_pin]_vars
  /\ [](state = READ_DATA =>
          \A rx \in {LOW, HIGH} :
            IF rx_from_lin1_
            THEN MirrorSample(Cur, rx).tx2_pin = rx /\ MirrorSample(Cur, rx).tx1_pin = tx1_pin
            ELSE MirrorSample(Cur, rx).tx1_pin = rx /\ MirrorSample(Cur, rx).tx2_pin = tx2_pin)

\* a stop bit sampled low on channel 2: written to tx1 on the error path
C19_Witness ==
  /\ STOP_BIT \in hist.raised
  /\ ActiveChannel = 2
  /\ hist.sample = LOW
  /\ hist.mirror = << 1, LOW >>
  /\ tx1_pin = LOW
  /\ state = DETECT_BREAK

-----------------------------------------------------------------------------
(* Busy waits *)

\* how far the counter has advanced since the wait was entered
Advanced == (clock + kUint16 - busywait.base_clock) % kUint16

\* the wait returned because of its timeout
TimedOut ==
  /\ busywait.at = "done"
  /\ busywait.ret = 0

\* C20: every busy wait of the handler returns while the 16-bit counter
\* keeps advancing; it goes round its loop only while the counter has
\* advanced by less than max_clock_ticks since entry, and returns its
\* timeout value (false, 0) only once the counter has advanced by
\* max_clock_ticks, and no later than the first timeout test after that, the
\* advance being taken modulo 2^16, across the wrap too.
C20_BusyWaitsTerminate ==
  /\ [](busywait.at = "loop" /\ busywait.looped /\ busywait.lag = 0
          => Advanced < busywait.max_clock_ticks)
  /\ [](TimedOut =>
          /\ Advanced >= busywait.max_clock_ticks
          /\ Advanced <= MaxTicksPerPoll
               + (IF busywait.looped THEN busywait.max_clock_ticks - 1 ELSE 0))
  /\ [](busywait.at = "done" =>
          busywait.ret \in (CASE busywait.fn = "wait" -> {0}
                              [] busywait.fn = "waitForResponseStartBit" -> {0, 1, 2}
                              [] OTHER -> {0, 1}))
  /\ (busywait.at = "loop") ~> (busywait.at = "done")

\* a wait for a level on channel 2 timed out after 255 ticks, the counter
\* having wrapped
C20_Witness ==
  /\ TimedOut
  /\ busywait.fn = "waitForRxHigh"
  /\ ~ busywait.use_rx1
  /\ busywait.max_clock_ticks = kUint8 - 1
  /\ clock < busywait.base_clock
  /\ Advanced = busywait.max_clock_ticks

-----------------------------------------------------------------------------
(* The timer count per bit *)

\* 16000000 / prescaler / baud, not truncated
ExactCountsPerBit(b) == (16000000 \div (IF b < 8000 THEN 64 ELSE 8)) \div b

\* C22: for every baud rate from 1000 to 20000 the prescaler selected (x64
\* below 8000 baud, x8 otherwise) makes 16000000 / prescaler / baud fit the
\* 8-bit timer: the stored count is the exact one, it is at most 255 and at
\* least 2, the compare value is the count less one, and the half-bit count
\* (count / 2 + 2) is below the count.
C22_CountFitsTimer ==
  (pc # "boot" /\ baud \in SupportedBauds) =>
    /\ config.prescaler_x64_ = (baud < 8000)
    /\ config.counts_per_bit_ = ExactCountsPerBit(baud)
    /\ ExactCountsPerBit(baud) <= kUint8 - 1
    /\ ExactCountsPerBit(baud) >= 2
    /\ config.counts_per_half_bit_ = (ExactCountsPerBit(baud) \div 2) + 2
    /\ config.counts_per_half_bit_ < config.counts_per_bit_
    /\ pc \in {"su_clear", "idle"} => timer.ocr2a = ExactCountsPerBit(baud) - 1

\* the lowest x8 rate: the count is 250, the compare value 249
C22_Witness ==
  /\ pc = "idle"
  /\ baud = 8000
  /\ ~ config.prescaler_x64_
  /\ config.counts_per_bit_ = 250
  /\ timer.ocr2a = 249

-----------------------------------------------------------------------------
(* readNextFrame returns *)

\* C21: every call of readNextFrame returns, provided the handler keeps
\* being invoked: every handler invocation increments isr_marker exactly
\* once on every path, the wait is left only after an invocation has
\* completed since the call, and the first such invocation lets it go on.
C21_ReadReturns ==
  /\ [][ISR_TIMER2_COMPA => isr_marker' = (isr_marker + 1) % kUint8]_vars
  /\ [][(pc = "rn_wait" /\ pc' # "rn_wait") => value # isr_marker]_vars
  /\ [][(pc = "rn_wait" /\ value = isr_marker /\ ISR_TIMER2_COMPA) =>
          (pc' = "rn_wait" /\ value' # isr_marker')]_vars
  /\ [](pc = "rn_wait" => sreg_i = sei /\ timer.ocie2a)
  /\ (pc = "rn_wait") ~> (pc = "rn_sei")
  /\ (pc = "rn_sei") ~> (pc = "idle")

\* a call made on the idle bus has gone through its wait and returns a frame
C21_Witness ==
  /\ pc = "rn_sei"
  /\ result
  /\ bus.frames = 0
  /\ state = DETECT_BREAK
  /\ hist.lows = 0
  /\ hist.sample = HIGH

-----------------------------------------------------------------------------
(* Read-Data ends *)

\* the ticks of a byte: start bit, eight data bits, stop bit
TicksPerByte == 10

\* the most ticks a frame can take: the sync byte and kMaxBytes stored bytes
MaxReadTicks == (1 + kMaxBytes) * TicksPerByte

\* C23: the decoder never handles more than 110 consecutive ticks in
\* Read-Data (the sync byte and at most ten stored bytes, ten ticks each):
\* the tick count of a frame is ten per byte read plus the bit position, and
\* the 110th tick at the latest returns to Detect-Break.
C23_ReadDataBounded ==
  /\ hist.reads <= MaxReadTicks
  /\ state = READ_DATA =>
        /\ hist.reads < MaxReadTicks
        /\ hist.reads = bytes_read_ * TicksPerByte + bits_read_in_byte_
        /\ bits_read_in_byte_ < TicksPerByte
        /\ bytes_read_ <= kMaxBytes
  /\ hist.reads = MaxReadTicks => state = DETECT_BREAK

\* a frame of ten bytes took 110 ticks and was committed at the last one
C23_Witness ==
  /\ hist.reads = MaxReadTicks
  /\ state = DETECT_BREAK
  /\ hist.committed
  /\ LinFrame_num_bytes(LastFrame) = kMaxBytes

-----------------------------------------------------------------------------
(* The repeater outputs in Detect-Break *)

\* the latest handler invocation sampled channel 1, and sampled it low
Channel1SampledLow ==
  /\ hist.sample = LOW
  /\ hist.reads = 0 \/ hist.mirror = << 2, LOW >>

\* C24 as stated: whenever the decoder is in Detect-Break after a handler
\* invocation and channel 1 is not being sampled low, both repeater outputs
\* are passive (high); so tx1 is high after every frame whose response was
\* read from channel 2, committed or aborted.
C24_OutputsPassive ==
  (state = DETECT_BREAK /\ ~ Channel1SampledLow) =>
    (tx1_pin = HIGH /\ tx2_pin = HIGH)

-----------------------------------------------------------------------------
(* The tie between the two channels *)

\* an iteration of waitForResponseStartBit
ResponsePoll ==
  /\ busywait.fn = "waitForResponseStartBit"
  /\ busywait.at = "loop"
  /\ clock' = clock
  /\ busywait' # busywait

\* the iteration met a high-to-low edge on channel 1, on channel 2
Edge1 == busywait.state1 = HIGH /\ busywait'.rx1 = LOW
Edge2 == busywait.state2 = HIGH /\ busywait'.rx2 = LOW

\* C25: when one polling iteration of the wait for the response start bit
\* meets high-to-low edges on both channels it returns channel 1, which
\* stays the active read channel; it returns channel 2 only from an
\* iteration that met an edge on channel 2 and none on channel 1.
C25_Channel1WinsTie ==
  /\ [][ResponsePoll =>
          /\ (Edge1 /\ Edge2) => (busywait'.at = "done" /\ busywait'.ret = 1)
          /\ busywait'.ret = 1 <=> Edge1
          /\ busywait'.ret = 2 <=> (Edge2 /\ ~ Edge1)]_vars
  /\ []((busywait.at = "done" /\ busywait.fn = "waitForResponseStartBit") =>
          LET s == WaitNextStartBit([Cur EXCEPT !.bytes_read_ = 2], busywait.ret)
          IN  /\ s.rx_from_lin1_ = (busywait.ret # 2)
              /\ s.has_more_bytes = (busywait.ret # 0))

\* both channels fell in the same iteration: channel 1 was returned
C25_Witness ==
  /\ busywait.fn = "waitForResponseStartBit"
  /\ busywait.at = "done"
  /\ busywait.ret = 1
  /\ busywait.state1 = HIGH /\ busywait.state2 = HIGH
  /\ busywait.rx1 = LOW /\ busywait.rx2 = LOW
  /\ busywait.looped

-----------------------------------------------------------------------------
(* The dispatch of the handler *)

\* C26: once setup has returned, the state variable is DETECT_BREAK or
\* READ_DATA at every entry of the handler, so the default branch of its
\* switch is not taken and the other/unexpected-state error is never raised.
C26_StateIsKnown ==
  /\ state \in {DETECT_BREAK, READ_DATA}
  /\ OTHER_ERR \notin hist.raised
  /\ OTHER_ERR \notin hist.pending
  /\ (~ boolean_is_bool) => Bit(error_flags, 6) = 0
  /\ ISR_body(Cur, HIGH, 0).raised \cap {OTHER_ERR} = {}

\* the handler has run in both states: a frame was aborted by an error and
\* the next one is being read
C26_Witness ==
  /\ state = READ_DATA
  /\ hist.pending \cap FrameErrors # {}
  /\ bus.frames = MaxDecodeFrames - 2
  /\ bytes_read_ = 1

====
